---------------------------- MODULE Spec2Model ----------------------------
(***************************************************************************)
(* A model of querify (src/querify/querify.py): the filter normalizer, the *)
(* registry-driven recursive expression builder and the per-target         *)
(* renderers.                                                              *)
(*                                                                         *)
(* Representation.  A Python str is a sequence of one-character strings,   *)
(* so that startswith/endswith, slicing, formatting and the lexicographic  *)
(* order of sorted() are computed, not assumed.  A JSON value is a record  *)
(* [t |-> <Python type name>, <payload>]; a dict keeps its entries         *)
(* in insertion order as a sequence of <<key, value>> pairs.  A call       *)
(* returns [ok |-> TRUE, val |-> ...] or, when it raises,                  *)
(* [ok |-> FALSE, exc |-> <exception class>, frag |-> <value formatted     *)
(* into the message>].                                                     *)
(***************************************************************************)
EXTENDS Integers, Sequences, FiniteSets, TLC

VARIABLES
    pep479,   \* TRUE: a StopIteration leaving a generator becomes RuntimeError
    input,    \* the JSON value handed to the library
    pc,       \* "start" | "normalized" | "renormalized" | "built" | "rendered"
    norm,     \* result of OperatorExpr.normalize_eval_expr_dict(input)
    norm2,    \* result of normalizing norm again
    scope,    \* the class whose from_json was called
    built,    \* result of scope.from_json(input)
    target,   \* the type handed to to_query
    rendered, \* result of built.to_query(target)
    registry, \* the classes defined and the entries of their `subclasses` dicts
    defining  \* the class statement executed last and its result

vars == <<pep479, input, pc, norm, norm2, scope, built, target, rendered, registry, defining>>

-----------------------------------------------------------------------------
(* Python strings used as keys and tokens *)

s_and == <<"_","_","a","n","d","_","_">>
s_or == <<"_","_","o","r","_","_">>
s_not == <<"_","_","n","o","t","_","_">>
s_eq == <<"_","_","e","q","_","_">>
s_neq == <<"_","_","n","e","q","_","_">>
s_gt == <<"_","_","g","t","_","_">>
s_gte == <<"_","_","g","t","e","_","_">>
s_lt == <<"_","_","l","t","_","_">>
s_lte == <<"_","_","l","t","e","_","_">>
s_regex == <<"_","_","r","e","g","e","x","_","_">>
s_iregex == <<"_","_","i","r","e","g","e","x","_","_">>
s_null == <<"_","_","n","u","l","l","_","_">>
s_missing == <<"_","_","m","i","s","s","i","n","g","_","_">>
s_in == <<"_","_","i","n","_","_">>

-----------------------------------------------------------------------------
(* JSON values and call results *)

\* Each type keeps its payload under a field of its own.
JStr(s) == [t |-> "str", s |-> s]
JInt(n) == [t |-> "int", i |-> n]
JBool(b) == [t |-> "bool", b |-> b]
JFloat(r) == [t |-> "float", r |-> r]            \* r: the float's repr
JDate(d) == [t |-> "datetime", dt |-> d]         \* <<year, month, day, hour, minute, second>>
JNone == [t |-> "NoneType"]
JList(xs) == [t |-> "list", l |-> xs]
JDict(es) == [t |-> "dict", d |-> es]
JPattern(p) == [t |-> "Pattern", p |-> p]        \* re.compile(p)

\* What a call ends with: the value it returns, or the exception it raises
\* and the fragment the exception is about.
Return(v) == [ok |-> TRUE, val |-> v]
Raise(e, f) == [ok |-> FALSE, exc |-> e, frag |-> f]

\* Statement sequencing: go on with the value of a call that returned; an
\* exception it raised propagates.
Bind(r, K(_)) == IF r.ok THEN K(r.val) ELSE r

\* isinstance(x, types) on a JSON value: bool is a subclass of int.
isinstance(x, types) ==
    \/ x.t \in types
    \/ x.t = "bool" /\ "int" \in types

startswith(s, c) == Len(s) >= 1 /\ s[1] = c
endswith(s, c) == Len(s) >= 1 /\ s[Len(s)] = c

\* The delimiters are kept
KeepEnds(s) == s

\* s[1:-1]
StripEnds(s) == SubSeq(s, 2, Len(s) - 1)

-----------------------------------------------------------------------------
(* OperatorExpr.normalize_eval_expr_dict *)

\* The list expansion leaves each element in its shorthand form {tag: v}
EqEachShorthand(tag, values) ==
    [i \in 1..Len(values) |-> JDict(<< <<tag, values[i]>> >>)]

\* [{tag: {'__eq__': v}} for v in values]
EqEach(tag, values) ==
    [i \in 1..Len(values) |->
        JDict(<< <<tag, JDict(<< <<s_eq, values[i]>> >>)>> >>)]

\* for op, condition in tag_filter.items(): ... (the inner loop)
RECURSIVE OperatorLoop(_, _, _)
OperatorLoop(tag, items, exprs) ==
    IF items = <<>> THEN Return(exprs)
    ELSE LET op == items[1][1]
             condition == items[1][2]
         IN IF isinstance(condition, {"str", "int", "float", "datetime"})
            THEN OperatorLoop(tag, Tail(items),
                   Append(exprs, JDict(<< <<tag, JDict(<< <<op, condition>> >>)>> >>)))
            ELSE IF isinstance(condition, {"list"})
            THEN IF op = s_in
                 THEN OperatorLoop(tag, Tail(items),
                        Append(exprs, JDict(<< <<s_or, JList(EqEach(tag, condition.l))>> >>)))
                 ELSE Raise("InvalidQuery", JStr(op))
            ELSE Raise("InvalidQuery", condition)

RECURSIVE normalize_eval_expr_dict(_)
RECURSIVE NormalizeEach(_, _)
RECURSIVE FilterLoop(_, _)

\* [cls.normalize_eval_expr_dict(c) for c in tag_filter]: the first raise ends it
NormalizeEach(cs, done) ==
    IF cs = <<>> THEN Return(done)
    ELSE Bind(normalize_eval_expr_dict(cs[1]),
              LAMBDA v : NormalizeEach(Tail(cs), Append(done, v)))

\* for tag, tag_filter in filter.items(): ... (the outer loop)
FilterLoop(items, exprs) ==
    IF items = <<>> THEN Return(exprs)
    ELSE
    LET tag == items[1][1]
        tag_filter == items[1][2]
        rest == Tail(items)
    IN
    IF isinstance(tag_filter, {"str"})
    THEN IF startswith(tag_filter.s, "/") /\ endswith(tag_filter.s, "/")
         THEN FilterLoop(rest, Append(exprs,
                JDict(<< <<tag, JDict(<< <<s_regex, JStr(StripEnds(tag_filter.s))>> >>)>> >>)))
         ELSE FilterLoop(rest, Append(exprs,
                JDict(<< <<tag, JDict(<< <<s_eq, tag_filter>> >>)>> >>)))
    ELSE IF isinstance(tag_filter, {"int", "float"})
    THEN FilterLoop(rest, Append(exprs,
           JDict(<< <<tag, JDict(<< <<s_eq, tag_filter>> >>)>> >>)))
    ELSE IF isinstance(tag_filter, {"list"})
    THEN IF tag = s_and
         THEN Bind(NormalizeEach(tag_filter.l, <<>>),
                   LAMBDA v : FilterLoop(rest, exprs \o v))
         ELSE IF tag = s_or
         THEN Bind(NormalizeEach(tag_filter.l, <<>>),
                   LAMBDA v : FilterLoop(rest, Append(exprs, JDict(<< <<s_or, JList(v)>> >>))))
         ELSE FilterLoop(rest, Append(exprs,
                JDict(<< <<s_or, JList(EqEach(tag, tag_filter.l))>> >>)))
    ELSE IF isinstance(tag_filter, {"dict"})
    THEN IF tag = s_not
         THEN Bind(normalize_eval_expr_dict(tag_filter),
                   LAMBDA v : FilterLoop(rest, Append(exprs, JDict(<< <<s_not, v>> >>))))
         ELSE Bind(OperatorLoop(tag, tag_filter.d, exprs),
                   LAMBDA v : FilterLoop(rest, v))
    ELSE Raise("InvalidQuery", JDict(<< <<tag, tag_filter>> >>))

\* Several expressions are combined under a disjunction
CombineOr(exprs) ==
    IF Len(exprs) > 1 THEN JDict(<< <<s_or, JList(exprs)>> >>)
    ELSE IF Len(exprs) = 1 THEN exprs[1]
    ELSE JDict(<<>>)

\* if len(exprs) > 1 / == 1 / else
Combine(exprs) ==
    IF Len(exprs) > 1 THEN JDict(<< <<s_and, JList(exprs)>> >>)
    ELSE IF Len(exprs) = 1 THEN exprs[1]
    ELSE JDict(<<>>)

normalize_eval_expr_dict(filter) ==
    IF filter.t # "dict"
    THEN Raise("AttributeError", filter)     \* filter.items()
    ELSE Bind(FilterLoop(filter.d, <<>>), LAMBDA exprs : Return(Combine(exprs)))

-----------------------------------------------------------------------------
(* Class definitions and the registry built by ClassWithSubclassDictMeta *)

s_literal == <<"l","i","t","e","r","a","l">>
s_operator_expr == <<"o","p","e","r","a","t","o","r","_","e","x","p","r">>
s_regex_key == <<"r","e","g","e","x">>
s_schema_key == <<"s","c","h","e","m","a">>

\* A registry key is a Python str or a type object.
TypeKey(n) == [t |-> "type", n |-> n]
NoKey == JNone

ClassDef(n, bs, b, k, f) == [name |-> n, bases |-> bs, base |-> b, key |-> k, final |-> f]

\* The class statements of the module, in definition order.
ClassDefs == <<
    ClassDef("Expr", <<"Query">>, TRUE, NoKey, FALSE),
    ClassDef("LiteralExpr", <<"Expr">>, TRUE, JStr(s_literal), FALSE),
    ClassDef("StringLiteral", <<"LiteralExpr">>, FALSE, TypeKey("str"), TRUE),
    ClassDef("BooleanLiteral", <<"LiteralExpr">>, FALSE, TypeKey("bool"), TRUE),
    ClassDef("IntLiteral", <<"LiteralExpr">>, FALSE, TypeKey("int"), TRUE),
    ClassDef("FloatLiteral", <<"LiteralExpr">>, FALSE, TypeKey("float"), TRUE),
    ClassDef("DateTimeLiteral", <<"LiteralExpr">>, FALSE, TypeKey("datetime"), TRUE),
    ClassDef("RegexLiteral", <<"LiteralExpr">>, FALSE, JStr(s_regex_key), TRUE),
    ClassDef("SchemaLiteral", <<"LiteralExpr">>, FALSE, JStr(s_schema_key), TRUE),
    ClassDef("OperatorExpr", <<"Expr">>, TRUE, JStr(s_operator_expr), FALSE),
    ClassDef("BooleanExpr", <<"OperatorExpr">>, FALSE, NoKey, FALSE),
    ClassDef("UnaryBooleanExpr", <<"BooleanExpr">>, FALSE, NoKey, FALSE),
    ClassDef("Not", <<"UnaryBooleanExpr">>, FALSE, JStr(s_not), TRUE),
    ClassDef("BinaryBooleanExpr", <<"BooleanExpr">>, FALSE, NoKey, FALSE),
    ClassDef("Equal", <<"BinaryBooleanExpr">>, FALSE, JStr(s_eq), TRUE),
    ClassDef("NotEqual", <<"BinaryBooleanExpr">>, FALSE, JStr(s_neq), TRUE),
    ClassDef("GreaterThan", <<"BinaryBooleanExpr">>, FALSE, JStr(s_gt), TRUE),
    ClassDef("GreaterThanOrEqual", <<"BinaryBooleanExpr">>, FALSE, JStr(s_gte), TRUE),
    ClassDef("LessThan", <<"BinaryBooleanExpr">>, FALSE, JStr(s_lt), TRUE),
    ClassDef("LessThanOrEqual", <<"BinaryBooleanExpr">>, FALSE, JStr(s_lte), TRUE),
    ClassDef("MatchRegex", <<"BinaryBooleanExpr">>, FALSE, JStr(s_regex), TRUE),
    ClassDef("InverseMatchRegex", <<"BinaryBooleanExpr">>, FALSE, JStr(s_iregex), TRUE),
    ClassDef("Null", <<"BinaryBooleanExpr">>, FALSE, JStr(s_null), TRUE),
    ClassDef("Missing", <<"BinaryBooleanExpr">>, FALSE, JStr(s_missing), TRUE),
    ClassDef("LogicalExpr", <<"BooleanExpr">>, FALSE, NoKey, FALSE),
    ClassDef("And", <<"LogicalExpr">>, FALSE, JStr(s_and), TRUE),
    ClassDef("Or", <<"LogicalExpr">>, FALSE, JStr(s_or), TRUE) >>

\* A registry: the classes defined so far and, per class owning a
\* `subclasses` dict, its entries as <<owner, key, class>>.
EmptyRegistry == [classes |-> <<>>, subclasses |-> {}]

DefOf(classes, n) ==
    IF \E i \in 1..Len(classes) : classes[i].name = n
    THEN classes[CHOOSE i \in 1..Len(classes) : classes[i].name = n]
    ELSE ClassDef(n, <<>>, FALSE, NoKey, FALSE)

\* The C3 merge of linearizations: the first head that is in no tail is taken
\* next; where there is none the order is inconsistent and the merge ends.
NonEmpty(seqs) == SelectSeq(seqs, LAMBDA q : q # <<>>)

GoodHead(seqs, i) == \A j \in 1..Len(seqs) : ~\E k \in 2..Len(seqs[j]) : seqs[j][k] = seqs[i][1]

DropHead(seqs, h) == [j \in 1..Len(seqs) |-> IF seqs[j][1] = h THEN Tail(seqs[j]) ELSE seqs[j]]

FirstGoodHead(seqs) ==
    seqs[CHOOSE i \in 1..Len(seqs) :
            GoodHead(seqs, i) /\ \A j \in 1..(i - 1) : ~GoodHead(seqs, j)][1]

RECURSIVE Merge(_)
Merge(seqs) ==
    IF seqs = <<>> \/ ~\E i \in 1..Len(seqs) : GoodHead(seqs, i) THEN <<>>
    ELSE <<FirstGoodHead(seqs)>> \o Merge(NonEmpty(DropHead(seqs, FirstGoodHead(seqs))))

\* The method resolution order of class n, n first.
RECURSIVE MroIn(_, _)
MroIn(classes, n) ==
    IF DefOf(classes, n).bases = <<>> THEN <<n>>
    ELSE IF Len(DefOf(classes, n).bases) = 1
    THEN <<n>> \o MroIn(classes, DefOf(classes, n).bases[1])
    ELSE <<n>> \o Merge([i \in 1..Len(DefOf(classes, n).bases) |->
                            MroIn(classes, DefOf(classes, n).bases[i])]
                        \o <<DefOf(classes, n).bases>>)

\* All the classes n derives from, n included
RECURSIVE Ancestors(_, _)
Ancestors(classes, n) ==
    {n} \cup UNION {Ancestors(classes, DefOf(classes, n).bases[i]) :
                        i \in 1..Len(DefOf(classes, n).bases)}

\* type.__new__ finds a consistent method resolution order for the class
Linearizable(classes, d) ==
    Len(MroIn(Append(classes, d), d.name)) = Cardinality(Ancestors(Append(classes, d), d.name))

\* getattr(cls, 'subclasses', None): the owner of the dict found on the
\* MRO, "" for None.
FirstBase(classes, m) ==
    IF \E i \in 1..Len(m) : DefOf(classes, m[i]).base
    THEN m[CHOOSE i \in 1..Len(m) :
                /\ DefOf(classes, m[i]).base
                /\ \A j \in 1..(i - 1) : ~DefOf(classes, m[j]).base]
    ELSE ""

SubclassesOwner(classes, n) == FirstBase(classes, MroIn(classes, n))

\* ClassWithSubclassDictMeta.__init__ for one class statement.
\* all_cls_subclasses, as the owners of the dicts in order: for a base class
\* the dict each of its bases sees, otherwise the dict the class itself sees.
Owners(reg, d) ==
    SelectSeq(IF d.base
              THEN [i \in 1..Len(d.bases) |-> SubclassesOwner(reg.classes, d.bases[i])]
              ELSE <<SubclassesOwner(Append(reg.classes, d), d.name)>>,
              LAMBDA o : o # "")

\* The class bound to key in the dict of owner
Existing(subclasses, owner, key) == (CHOOSE e \in subclasses : e[1] = owner /\ e[2] = key)[3]

\* What a class statement that raises leaves behind: the classes that have a
\* name, and the dicts as they are by then
RaiseIn(e, f, classes, subclasses) ==
    [ok |-> FALSE, exc |-> e, frag |-> f, reg |-> [classes |-> classes, subclasses |-> subclasses]]

\* The new class takes the place of the one bound to the key
AddToOverwrite(reg, d, owners) ==
    Return([classes |-> Append(reg.classes, d),
            subclasses |-> {e \in reg.subclasses : ~((\E i \in 1..Len(owners) : owners[i] = e[1]) /\ e[2] = d.key)}
                              \cup {<<owners[i], d.key, d.name>> : i \in 1..Len(owners)}])

\* for cls_subclasses in all_cls_subclasses: the conflict check, then the
\* registration; a conflict ends the loop with the earlier dicts written
RECURSIVE AddTo(_, _, _)
AddTo(reg, d, owners) ==
    IF owners = <<>> THEN Return([classes |-> Append(reg.classes, d), subclasses |-> reg.subclasses])
    ELSE IF \E e \in reg.subclasses : e[1] = owners[1] /\ e[2] = d.key
    THEN RaiseIn("KeyError",
                 [key |-> d.key, new |-> d.name,
                  existing |-> Existing(reg.subclasses, owners[1], d.key)],
                 reg.classes, reg.subclasses)
    ELSE AddTo([classes |-> reg.classes,
                subclasses |-> reg.subclasses \cup {<<owners[1], d.key, d.name>>}],
               d, Tail(owners))

\* ClassWithSubclassDictMeta.__init__
Register(reg, d) ==
    IF d.key = NoKey
    THEN Return([classes |-> Append(reg.classes, d), subclasses |-> reg.subclasses])
    ELSE IF Owners(reg, d) = <<>>
    THEN RaiseIn("KeyError", [key |-> d.key, new |-> d.name], reg.classes, reg.subclasses)
    ELSE AddTo(reg, d, Owners(reg, d))

\* The class statement: type.__new__, then ClassFromJsonWithSubclassDictMeta.__init__,
\* which registers first and looks for a final base afterwards
Define(reg, d) ==
    IF ~Linearizable(reg.classes, d)
    THEN RaiseIn("TypeError", [new |-> d.name], reg.classes, reg.subclasses)
    ELSE Bind(Register(reg, d), LAMBDA next :
         IF \E i \in 1..Len(d.bases) : DefOf(reg.classes, d.bases[i]).final
         THEN RaiseIn("TypeError", [new |-> d.name], reg.classes, next.subclasses)
         ELSE Return(next))

RECURSIVE RegisterAll(_, _)
RegisterAll(reg, defs) ==
    IF defs = <<>> THEN Return(reg)
    ELSE Bind(Define(reg, defs[1]), LAMBDA next : RegisterAll(next, Tail(defs)))

\* The registry once the module is imported.
Registry == RegisterAll(EmptyRegistry, ClassDefs).val

Mro(n) == MroIn(Registry.classes, n)
Contains(seq, x) == \E i \in 1..Len(seq) : seq[i] = x
IsSubclass(n, c) == Contains(Mro(n), c)
Final(n) == DefOf(Registry.classes, n).final

\* ClassWithSubclassDictMeta.__getitem__: cls[cls_key]
Lookup(subclasses, owner, cls_key) ==
    IF owner = "" THEN Raise("KeyError", JStr(<<>>))               \* subclasses is None
    ELSE IF \E e \in subclasses : e[1] = owner /\ e[2] = cls_key
    THEN Return((CHOOSE e \in subclasses : e[1] = owner /\ e[2] = cls_key)[3])
    ELSE Raise("KeyError", cls_key)

getitem(cls, cls_key) ==
    Lookup(Registry.subclasses, SubclassesOwner(Registry.classes, cls), cls_key)

-----------------------------------------------------------------------------
(* Expression nodes and the builder *)

Literal(cls, literal) == [cls |-> cls, literal |-> literal]
Unary(cls, operand) == [cls |-> cls, operand |-> operand]
Binary(cls, left, right) == [cls |-> cls, left |-> left, right |-> right]
Logical(cls, exprs) == [cls |-> cls, exprs |-> exprs]

\* Whether a value is an Expr object rather than raw JSON.
IsExpr(x) == "cls" \in DOMAIN x

\* The exception classes of querify/errors.py, each with its base classes.
ErrorMro(e) == <<e, "Exception">>

\* except <handlers>: whether the raised exception r is caught
IsCaught(r, handlers) == \E c \in handlers : Contains(ErrorMro(r.exc), c)

\* cls.cls_keys_from_json(json), drained: the keys a generator yields, or
\* what iterating it raises.
cls_keys_from_json(cls, json) ==
    IF cls = "RegexLiteral" THEN Return(<<JStr(s_regex_key)>>)
    ELSE IF cls = "SchemaLiteral" THEN Return(<<JStr(s_schema_key)>>)
    ELSE IF IsSubclass(cls, "LiteralExpr") THEN Return(<<TypeKey(json.t)>>)
    ELSE IF IsSubclass(cls, "OperatorExpr")
    THEN IF json.t # "dict" THEN Raise("AttributeError", json)
         ELSE IF json.d = <<>>
         \* next() raises StopIteration inside the generator
         THEN IF pep479 THEN Raise("RuntimeError", json) ELSE Return(<<>>)
         ELSE IF isinstance(json.d[1][2], {"dict"}) /\ json.d[1][2].d # <<>>
              THEN Return(<<JStr(json.d[1][1]), JStr(json.d[1][2].d[1][1])>>)
              ELSE Return(<<JStr(json.d[1][1])>>)
    ELSE IF isinstance(json, {"dict"}) THEN Return(<<JStr(s_operator_expr)>>)
    ELSE Return(<<JStr(s_literal)>>)

\* The right operand is the whole operator mapping
init_args_from_jsonWhole(cls, json) ==
    IF IsSubclass(cls, "LiteralExpr") THEN Return([literal |-> json])
    ELSE IF json.d = <<>> THEN Return(JNone)
    ELSE Return([left |-> JStr(json.d[1][1]), right |-> json.d[1][2],
                 operand |-> json.d[1][2], exprs |-> json.d[1][2], literal |-> json])

\* subcls.init_args_from_json(json): the kwargs, or JNone for None
init_args_from_json(cls, json) ==
    IF IsSubclass(cls, "LiteralExpr") THEN Return([literal |-> json])
    ELSE IF IsSubclass(cls, "UnaryBooleanExpr")
    THEN IF json.d = <<>> THEN Return(JNone)
         ELSE Return([operand |-> json.d[1][2]])
    ELSE IF IsSubclass(cls, "BinaryBooleanExpr")
    THEN IF json.d = <<>> THEN Return(JNone)
         ELSE IF json.d[1][2].t # "dict" THEN Raise("AttributeError", json.d[1][2])
         ELSE IF json.d[1][2].d = <<>> THEN Return(JNone)
         ELSE Return([left |-> JStr(json.d[1][1]), right |-> json.d[1][2].d[1][2]])
    ELSE IF IsSubclass(cls, "LogicalExpr")
    THEN IF json.d = <<>> THEN Return(JNone)
         ELSE Return([exprs |-> json.d[1][2]])
    ELSE Return(JNone)

\* cls.key
KeyOf(cls) == DefOf(Registry.classes, cls).key

\* isinstance(self.key, type) and isinstance(literal, self.key)
IsInstanceOfKey(literal, key) == key.t = "type" /\ isinstance(literal, {key.n})

\* self.validate_literal(literal)
validate_literal(cls, literal) ==
    IF cls \in {"RegexLiteral", "SchemaLiteral"} THEN isinstance(literal, {"str"})
    ELSE IsInstanceOfKey(literal, KeyOf(cls))

RECURSIVE from_json(_, _)
RECURSIVE new_from_json(_, _)
RECURSIVE type_new_from_json(_, _)
RECURSIVE KeysLoop(_, _, _)
RECURSIVE Construct(_, _)
RECURSIVE FromJsonEach(_, _)
RECURSIVE BinaryBooleanExpr_init(_, _)

\* LiteralExpr.__init__
LiteralExpr_init(cls, kwargs) ==
    IF validate_literal(cls, kwargs.literal) THEN Return(Literal(cls, kwargs.literal))
    ELSE IF KeyOf(cls).t = "type" THEN Raise("InvalidQuery", kwargs.literal)
    ELSE Raise("AttributeError", kwargs.literal)       \* self.key.__name__ of a str

\* UnaryBooleanExpr.__init__
UnaryBooleanExpr_init(cls, kwargs) ==
    Bind(from_json("BooleanExpr", kwargs.operand),
         LAMBDA operand : Return(Unary(cls, operand)))

\* BinaryBooleanExpr.__init__
BinaryBooleanExpr_init(cls, kwargs) ==
    Bind(from_json("SchemaLiteral", kwargs.left), LAMBDA left :
    Bind(from_json("LiteralExpr", kwargs.right), LAMBDA right :
    Return(Binary(cls, left, right))))

\* MatchRegex.__init__ / InverseMatchRegex.__init__
MatchRegex_init(cls, kwargs) ==
    Bind(BinaryBooleanExpr_init(cls, kwargs), LAMBDA self :
    Bind(from_json("RegexLiteral", kwargs.right), LAMBDA right :
    Return(Binary(cls, self.left, right))))

\* The right operand is not looked at
Null_initUnchecked(cls, kwargs) == BinaryBooleanExpr_init(cls, kwargs)

\* Null.__init__ / Missing.__init__
Null_init(cls, kwargs) ==
    Bind(BinaryBooleanExpr_init(cls, kwargs), LAMBDA self :
    IF ~IsSubclass(self.right.cls, "BooleanLiteral")
    THEN Raise("InvalidQuery", KeyOf(cls))
    ELSE Return(self))

\* [BooleanExpr.from_json(e) for e in exprs]
FromJsonEach(es, done) ==
    IF es = <<>> THEN Return(done)
    ELSE Bind(from_json("BooleanExpr", es[1]),
              LAMBDA e : FromJsonEach(Tail(es), Append(done, e)))

\* LogicalExpr.__init__
LogicalExpr_init(cls, kwargs) ==
    IF ~isinstance(kwargs.exprs, {"list"})
    THEN Raise("InvalidQuery", KeyOf(cls))
    ELSE Bind(FromJsonEach(kwargs.exprs.l, <<>>),
              LAMBDA exprs : Return(Logical(cls, exprs)))

\* subcls(**kwargs)
Construct(cls, kwargs) ==
    IF IsSubclass(cls, "LiteralExpr") THEN LiteralExpr_init(cls, kwargs)
    ELSE IF IsSubclass(cls, "UnaryBooleanExpr") THEN UnaryBooleanExpr_init(cls, kwargs)
    ELSE IF cls \in {"MatchRegex", "InverseMatchRegex"} THEN MatchRegex_init(cls, kwargs)
    ELSE IF cls \in {"Null", "Missing"} THEN Null_init(cls, kwargs)
    ELSE IF IsSubclass(cls, "BinaryBooleanExpr") THEN BinaryBooleanExpr_init(cls, kwargs)
    ELSE LogicalExpr_init(cls, kwargs)

\* The body of the try block of ClassFromJsonWithSubclassDictMeta.new_from_json
\* for one key.  `subcls.new_from_json is cls.new_from_json` compares two
\* freshly bound method objects and is never true.
TryKey(cls, json, key) ==
    Bind(getitem(cls, key), LAMBDA subcls :
    IF Final(subcls)
    THEN Bind(init_args_from_json(subcls, json), LAMBDA kwargs :
         IF kwargs # JNone THEN Construct(subcls, kwargs)
         ELSE Raise("UnrecognizedJsonableClass", JStr(<<>>)))
    ELSE new_from_json(subcls, json))

\* except (KeyError, UnrecognizedExprType): pass, and on to the next key
NextKey(r, cls, json, keys) ==
    IF ~r.ok /\ IsCaught(r, {"KeyError", "UnrecognizedExprType"})
    THEN KeysLoop(cls, json, Tail(keys))
    ELSE r

\* for key in cls.cls_keys_from_json(json): try ... ; raise UnrecognizedJsonableClass
KeysLoop(cls, json, keys) ==
    IF keys = <<>> THEN Raise("UnrecognizedJsonableClass", json)
    ELSE NextKey(TryKey(cls, json, keys[1]), cls, json, keys)

\* ClassFromJsonWithSubclassDictMeta.new_from_json
type_new_from_json(cls, json) ==
    Bind(cls_keys_from_json(cls, json), LAMBDA keys : KeysLoop(cls, json, keys))

\* OperatorExpr.new_from_json
OperatorExpr_new_from_json(cls, json) ==
    Bind(normalize_eval_expr_dict(json),
         LAMBDA normalized : type_new_from_json(cls, normalized))

\* cls.new_from_json(json), resolved on the class and then on the metaclass
new_from_json(cls, json) ==
    IF IsSubclass(cls, "OperatorExpr") THEN OperatorExpr_new_from_json(cls, json)
    ELSE type_new_from_json(cls, json)

\* UnrecognizedJsonableClass is not caught
CheckedUncaught(r, cls, json) ==
    IF r.ok /\ ~IsSubclass(r.val.cls, cls) THEN Raise("InvalidQuery", json) ELSE r

\* except UnrecognizedJsonableClass as err: expr = err; then the isinstance check
Checked(r, cls, json) ==
    IF r.ok
    THEN IF IsSubclass(r.val.cls, cls) THEN r ELSE Raise("InvalidQuery", json)
    ELSE IF IsCaught(r, {"UnrecognizedJsonableClass"}) THEN Raise("InvalidQuery", json)
    ELSE r

\* Expr.from_json
from_json(cls, json) ==
    IF IsExpr(json) /\ IsSubclass(json.cls, cls) THEN Return(json)
    ELSE Checked(new_from_json(cls, json), cls, json)

-----------------------------------------------------------------------------
(* Text: code points, repr, format, sorted, join *)

\* The printable ASCII characters in code point order, from 32 (code point
\* 96, the grave accent, cannot be written in a string and is named).
Ascii == <<
    " ", "!", "\"", "#", "$", "%", "&", "'", "(", ")", "*", "+", ",", "-", ".", "/",
    "0", "1", "2", "3", "4", "5", "6", "7", "8", "9", ":", ";", "<", "=", ">", "?",
    "@", "A", "B", "C", "D", "E", "F", "G", "H", "I", "J", "K", "L", "M", "N", "O",
    "P", "Q", "R", "S", "T", "U", "V", "W", "X", "Y", "Z", "[", "\\", "]", "^", "_",
    "grave", "a", "b", "c", "d", "e", "f", "g", "h", "i", "j", "k", "l", "m", "n", "o",
    "p", "q", "r", "s", "t", "u", "v", "w", "x", "y", "z", "{", "|", "}", "~" >>

ord(c) == 31 + (CHOOSE i \in 1..Len(Ascii) : Ascii[i] = c)

\* a < b on Python str: by code point, a proper prefix first
RECURSIVE StrLess(_, _)
StrLess(a, b) ==
    IF b = <<>> THEN FALSE
    ELSE IF a = <<>> THEN TRUE
    ELSE IF a[1] = b[1] THEN StrLess(Tail(a), Tail(b))
    ELSE ord(a[1]) < ord(b[1])

\* sorted(xs) on a list of str
RECURSIVE Insert(_, _)
Insert(x, xs) ==
    IF xs = <<>> THEN <<x>>
    ELSE IF StrLess(x, xs[1]) THEN <<x>> \o xs
    ELSE <<xs[1]>> \o Insert(x, Tail(xs))

RECURSIVE sorted(_)
sorted(xs) == IF xs = <<>> THEN <<>> ELSE Insert(xs[Len(xs)], sorted(SubSeq(xs, 1, Len(xs) - 1)))

\* sep.join(xs)
RECURSIVE join(_, _)
join(sep, xs) ==
    IF xs = <<>> THEN <<>>
    ELSE IF Len(xs) = 1 THEN xs[1]
    ELSE xs[1] \o sep \o join(sep, Tail(xs))

\* repr(n) of an int
RECURSIVE IntRepr(_)
IntRepr(n) ==
    IF n < 0 THEN <<"-">> \o IntRepr(-n)
    ELSE IF n < 10 THEN <<Ascii[17 + n]>>
    ELSE IntRepr(n \div 10) \o <<Ascii[17 + (n % 10)]>>

\* %m, %d, %H, %M, %S: two digits
Pad2(n) == IF n < 10 THEN <<"0">> \o IntRepr(n) ELSE IntRepr(n)

\* repr(self.literal) of a bool, int or float literal; a float is kept as
\* its repr
repr(literal) ==
    IF literal.t = "bool"
    THEN IF literal.b THEN <<"T","r","u","e">> ELSE <<"F","a","l","s","e">>
    ELSE IF literal.t = "int" THEN IntRepr(literal.i)
    ELSE literal.r

\* '{:%Y-%m-%d<sep>%H:%M:%S}'.format(d), d = <<year, month, day, hour, minute, second>>
strftime(d, sep) ==
    IntRepr(d[1]) \o <<"-">> \o Pad2(d[2]) \o <<"-">> \o Pad2(d[3]) \o sep
        \o Pad2(d[4]) \o <<":">> \o Pad2(d[5]) \o <<":">> \o Pad2(d[6])

\* '{}'.format(x) of an operator attribute: a str or None
Format(x) == IF x = JNone THEN <<"N","o","n","e">> ELSE x.s

-----------------------------------------------------------------------------
(* Operator metadata: the operator_<type> class attributes *)

operator_influx(cls) ==
    CASE cls = "Equal" -> JStr(<<"=">>)
      [] cls = "NotEqual" -> JStr(<<"!","=">>)
      [] cls = "GreaterThan" -> JStr(<<">">>)
      [] cls = "GreaterThanOrEqual" -> JStr(<<">","=">>)
      [] cls = "LessThan" -> JStr(<<"<">>)
      [] cls = "LessThanOrEqual" -> JStr(<<"<","=">>)
      [] cls = "MatchRegex" -> JStr(<<"=","~">>)
      [] cls = "InverseMatchRegex" -> JStr(<<"!","~">>)
      [] cls = "And" -> JStr(<<"A","N","D">>)
      [] cls = "Or" -> JStr(<<"O","R">>)
      [] OTHER -> JNone

operator_mysql(cls) ==
    CASE cls = "Not" -> JStr(<<"N","O","T">>)
      [] cls = "Equal" -> JStr(<<"=">>)
      [] cls = "NotEqual" -> JStr(<<"<",">">>)
      [] cls = "GreaterThan" -> JStr(<<">">>)
      [] cls = "GreaterThanOrEqual" -> JStr(<<">","=">>)
      [] cls = "LessThan" -> JStr(<<"<">>)
      [] cls = "LessThanOrEqual" -> JStr(<<"<","=">>)
      [] cls = "MatchRegex" -> JStr(<<"R","E","G","E","X","P">>)
      [] cls = "InverseMatchRegex" -> JStr(<<"N","O","T"," ","R","E","G","E","X","P">>)
      [] cls = "And" -> JStr(<<"A","N","D">>)
      [] cls = "Or" -> JStr(<<"O","R">>)
      [] OTHER -> JNone

operator_mongo(cls) ==
    CASE cls = "Not" -> JStr(<<"$","n","o","t">>)
      [] cls = "Equal" -> JStr(<<"$","e","q">>)
      [] cls = "NotEqual" -> JStr(<<"$","n","e">>)
      [] cls = "GreaterThan" -> JStr(<<"$","g","t">>)
      [] cls = "GreaterThanOrEqual" -> JStr(<<"$","g","t","e">>)
      [] cls = "LessThan" -> JStr(<<"$","l","t">>)
      [] cls = "LessThanOrEqual" -> JStr(<<"$","l","t","e">>)
      [] cls = "And" -> JStr(<<"$","a","n","d">>)
      [] cls = "Or" -> JStr(<<"$","o","r">>)
      [] OTHER -> JNone

operator_pandas(cls) ==
    CASE cls = "Not" -> JStr(<<"~">>)
      [] cls = "Equal" -> JStr(<<"=","=">>)
      [] cls = "NotEqual" -> JStr(<<"!","=">>)
      [] cls = "GreaterThan" -> JStr(<<">">>)
      [] cls = "GreaterThanOrEqual" -> JStr(<<">","=">>)
      [] cls = "LessThan" -> JStr(<<"<">>)
      [] cls = "LessThanOrEqual" -> JStr(<<"<","=">>)
      [] cls = "And" -> JStr(<<"&">>)
      [] cls = "Or" -> JStr(<<"|">>)
      [] OTHER -> JNone

-----------------------------------------------------------------------------
(* Renderers.  A rendered text is a Python str, a rendered MongoDB query   *)
(* a JSON value.                                                           *)

Quoted(q, s) == <<q>> \o s \o <<q>>

\* '{} {} {}'.format(left, operator, right)
Infix(left, operator, right) == left \o <<" ">> \o Format(operator) \o <<" ">> \o right

\* The fragments are joined in the order of the children
LogicalJoinUnsorted(operator, queries) ==
    join(<<" ">> \o Format(operator) \o <<" ">>,
         [i \in 1..Len(queries) |-> <<"(">> \o queries[i] \o <<")">>])

\* ' {} '.format(operator).join(sorted('(' + q + ')' for q in queries))
LogicalJoin(operator, queries) ==
    join(<<" ">> \o Format(operator) \o <<" ">>,
         sorted([i \in 1..Len(queries) |-> <<"(">> \o queries[i] \o <<")">>]))

RECURSIVE to_query_influx(_)
RECURSIVE to_query_mysql(_)
RECURSIVE to_query_mongo(_)
RECURSIVE to_query_pandas(_)
RECURSIVE InfluxEach(_, _)
RECURSIVE MysqlEach(_, _)
RECURSIVE MongoEach(_, _)
RECURSIVE PandasEach(_, _)

\* the generator (e.to_query_influx() for e in self.exprs), drained
InfluxEach(es, done) ==
    IF es = <<>> THEN Return(done)
    ELSE Bind(to_query_influx(es[1]), LAMBDA q : InfluxEach(Tail(es), Append(done, q.s)))

MysqlEach(es, done) ==
    IF es = <<>> THEN Return(done)
    ELSE Bind(to_query_mysql(es[1]), LAMBDA q : MysqlEach(Tail(es), Append(done, q.s)))

MongoEach(es, done) ==
    IF es = <<>> THEN Return(done)
    ELSE Bind(to_query_mongo(es[1]), LAMBDA q : MongoEach(Tail(es), Append(done, q)))

PandasEach(es, done) ==
    IF es = <<>> THEN Return(done)
    ELSE Bind(to_query_pandas(es[1]), LAMBDA q : PandasEach(Tail(es), Append(done, q.s)))

\* BinaryBooleanExpr.to_query_influx
BinaryBooleanExpr_to_query_influx(self) ==
    Bind(to_query_influx(self.left), LAMBDA left :
    Bind(to_query_influx(self.right), LAMBDA right :
    Return(JStr(Infix(left.s, operator_influx(self.cls), right.s)))))

\* LogicalExpr.to_query_influx
LogicalExpr_to_query_influx(self) ==
    Bind(InfluxEach(self.exprs, <<>>), LAMBDA queries :
    Return(JStr(LogicalJoin(operator_influx(self.cls), queries))))

to_query_influx(self) ==
    CASE self.cls = "StringLiteral" -> Return(JStr(Quoted("'", self.literal.s)))
      [] self.cls \in {"BooleanLiteral", "IntLiteral", "FloatLiteral"} ->
            Return(JStr(repr(self.literal)))
      [] self.cls = "DateTimeLiteral" ->
            Return(JStr(Quoted("'", strftime(self.literal.dt, <<"T">>) \o <<"Z">>)))
      [] self.cls = "RegexLiteral" -> Return(JStr(Quoted("/", self.literal.s)))
      [] self.cls = "SchemaLiteral" -> Return(JStr(Quoted("\"", self.literal.s)))
      [] IsSubclass(self.cls, "BinaryBooleanExpr") -> BinaryBooleanExpr_to_query_influx(self)
      [] IsSubclass(self.cls, "LogicalExpr") -> LogicalExpr_to_query_influx(self)
      [] OTHER -> Raise("NotImplementedError", self)      \* Query.to_query_influx

\* BinaryBooleanExpr.to_query_mysql
BinaryBooleanExpr_to_query_mysql(self) ==
    Bind(to_query_mysql(self.left), LAMBDA left :
    Bind(to_query_mysql(self.right), LAMBDA right :
    Return(JStr(Infix(left.s, operator_mysql(self.cls), right.s)))))

\* Not.to_query_mysql
Not_to_query_mysql(self) ==
    Bind(to_query_mysql(self.operand), LAMBDA operand :
    Return(JStr(Format(operator_mysql(self.cls)) \o <<" ", "(">> \o operand.s \o <<")">>)))

\* Null.to_query_mysql
Null_to_query_mysql(self) ==
    Bind(to_query_mysql(self.left), LAMBDA left :
    Return(JStr(left.s \o <<" ">> \o
                (IF self.right.literal.b THEN <<"i","s"," ","N","U","L","L">>
                 ELSE <<"i","s"," ","N","O","T"," ","N","U","L","L">>))))

\* LogicalExpr.to_query_mysql
LogicalExpr_to_query_mysql(self) ==
    Bind(MysqlEach(self.exprs, <<>>), LAMBDA queries :
    Return(JStr(LogicalJoin(operator_mysql(self.cls), queries))))

to_query_mysql(self) ==
    CASE self.cls = "StringLiteral" -> Return(JStr(Quoted("'", self.literal.s)))
      [] self.cls \in {"BooleanLiteral", "IntLiteral", "FloatLiteral"} ->
            Return(JStr(repr(self.literal)))
      [] self.cls = "DateTimeLiteral" ->
            Return(JStr(Quoted("'", strftime(self.literal.dt, <<" ">>))))
      [] self.cls = "RegexLiteral" -> Return(JStr(Quoted("'", self.literal.s)))
      [] self.cls = "SchemaLiteral" -> Return(JStr(self.literal.s))
      [] self.cls = "Not" -> Not_to_query_mysql(self)
      [] self.cls = "Null" -> Null_to_query_mysql(self)
      [] IsSubclass(self.cls, "BinaryBooleanExpr") -> BinaryBooleanExpr_to_query_mysql(self)
      [] IsSubclass(self.cls, "LogicalExpr") -> LogicalExpr_to_query_mysql(self)
      [] OTHER -> Raise("NotImplementedError", self)      \* Query.to_query_mysql

\* BinaryBooleanExpr.to_query_pandas
BinaryBooleanExpr_to_query_pandas(self) ==
    Bind(to_query_pandas(self.left), LAMBDA left :
    Bind(to_query_pandas(self.right), LAMBDA right :
    Return(JStr(Infix(left.s, operator_pandas(self.cls), right.s)))))

\* Not.to_query_pandas
Not_to_query_pandas(self) ==
    Bind(to_query_pandas(self.operand), LAMBDA operand :
    Return(JStr(Format(operator_pandas(self.cls)) \o <<"(">> \o operand.s \o <<")">>)))

\* Null.to_query_pandas
Null_to_query_pandas(self) ==
    Bind(to_query_pandas(self.left), LAMBDA left :
    Return(JStr((IF self.right.literal.b THEN <<>> ELSE <<"~">>) \o
                <<"p","a","n","d","a","s",".","i","s","n","u","l","l","(">> \o
                left.s \o <<")">>)))

\* LogicalExpr.to_query_pandas
LogicalExpr_to_query_pandas(self) ==
    Bind(PandasEach(self.exprs, <<>>), LAMBDA queries :
    Return(JStr(LogicalJoin(operator_pandas(self.cls), queries))))

to_query_pandas(self) ==
    CASE self.cls = "StringLiteral" -> Return(JStr(Quoted("'", self.literal.s)))
      [] self.cls \in {"BooleanLiteral", "IntLiteral", "FloatLiteral"} ->
            Return(JStr(repr(self.literal)))
      [] self.cls = "SchemaLiteral" -> Return(JStr(self.literal.s))
      [] self.cls = "Not" -> Not_to_query_pandas(self)
      [] self.cls = "Null" -> Null_to_query_pandas(self)
      [] IsSubclass(self.cls, "BinaryBooleanExpr") -> BinaryBooleanExpr_to_query_pandas(self)
      [] IsSubclass(self.cls, "LogicalExpr") -> LogicalExpr_to_query_pandas(self)
      [] OTHER -> Raise("NotImplementedError", self)      \* Query.to_query_pandas

\* BinaryBooleanExpr.to_query_mongo
BinaryBooleanExpr_to_query_mongo(self) ==
    Bind(to_query_mongo(self.left), LAMBDA left :
    Bind(to_query_mongo(self.right), LAMBDA right :
    Return(JDict(<< <<left.s, JDict(<< <<Format(operator_mongo(self.cls)), right>> >>)>> >>))))

\* MatchRegex.to_query_mongo
MatchRegex_to_query_mongo(self) ==
    Bind(to_query_mongo(self.left), LAMBDA left :
    Bind(to_query_mongo(self.right), LAMBDA right :
    Return(JDict(<< <<left.s, right>> >>))))

\* InverseMatchRegex.to_query_mongo
InverseMatchRegex_to_query_mongo(self) ==
    Bind(to_query_mongo(self.left), LAMBDA left :
    Bind(to_query_mongo(self.right), LAMBDA right :
    Return(JDict(<< <<left.s, JDict(<< <<(<<"$","n","o","t">>), right>> >>)>> >>))))

\* Null.to_query_mongo
Null_to_query_mongo(self) ==
    Bind(to_query_mongo(self.left), LAMBDA left :
    Return(JDict(<< <<left.s,
                      JDict(<< <<(IF self.right.literal.b THEN <<"$","e","q">>
                                  ELSE <<"$","n","e">>), JNone>> >>)>> >>)))

\* Missing.to_query_mongo
Missing_to_query_mongo(self) ==
    Bind(to_query_mongo(self.left), LAMBDA left :
    Return(JDict(<< <<left.s,
                      JDict(<< <<(<<"$","e","x","i","s","t","s">>),
                                 JInt(IF self.right.literal.b THEN 1 ELSE -1)>> >>)>> >>)))

\* The negation wraps the operand's whole query
Not_to_query_mongoWrapped(self) ==
    Bind(to_query_mongo(self.operand), LAMBDA tmp_mongo_query :
    Return(JDict(<< <<Format(operator_mongo(self.cls)), tmp_mongo_query>> >>)))

\* Not.to_query_mongo
Not_to_query_mongo(self) ==
    Bind(to_query_mongo(self.operand), LAMBDA tmp_mongo_query :
    IF tmp_mongo_query.t # "dict"
    THEN Raise("AttributeError", tmp_mongo_query)              \* .items()
    ELSE IF tmp_mongo_query.d = <<>>
    THEN Raise("StopIteration", tmp_mongo_query)               \* next(iter({}.items()))
    ELSE Return(JDict(<< <<tmp_mongo_query.d[1][1],
                           JDict(<< <<Format(operator_mongo(self.cls)),
                                      tmp_mongo_query.d[1][2]>> >>)>> >>)))

\* LogicalExpr.to_query_mongo
LogicalExpr_to_query_mongo(self) ==
    Bind(MongoEach(self.exprs, <<>>), LAMBDA queries :
    Return(JDict(<< <<Format(operator_mongo(self.cls)), JList(queries)>> >>)))

to_query_mongo(self) ==
    CASE self.cls = "RegexLiteral" -> Return(JPattern(self.literal.s))
      [] IsSubclass(self.cls, "LiteralExpr") -> Return(self.literal)
      [] self.cls = "Not" -> Not_to_query_mongo(self)
      [] self.cls = "MatchRegex" -> MatchRegex_to_query_mongo(self)
      [] self.cls = "InverseMatchRegex" -> InverseMatchRegex_to_query_mongo(self)
      [] self.cls = "Null" -> Null_to_query_mongo(self)
      [] self.cls = "Missing" -> Missing_to_query_mongo(self)
      [] IsSubclass(self.cls, "BinaryBooleanExpr") -> BinaryBooleanExpr_to_query_mongo(self)
      [] IsSubclass(self.cls, "LogicalExpr") -> LogicalExpr_to_query_mongo(self)
      [] OTHER -> Raise("NotImplementedError", self)      \* Query.to_query_mongo

\* Query.to_query: getattr(self, 'to_query_' + type, None)
to_query(self, type) ==
    CASE type = "influx" -> to_query_influx(self)
      [] type = "mysql" -> to_query_mysql(self)
      [] type = "mongo" -> to_query_mongo(self)
      [] type = "pandas" -> to_query_pandas(self)
      [] OTHER -> Raise("NotImplementedError", self)

\* getattr(cls, 'operator_' + type)
operator(cls, type) ==
    CASE type = "influx" -> operator_influx(cls)
      [] type = "mysql" -> operator_mysql(cls)
      [] type = "mongo" -> operator_mongo(cls)
      [] type = "pandas" -> operator_pandas(cls)

\* The targets a class body defines a to_query_<type> method for
OwnRenderers(cls) ==
    CASE cls \in {"StringLiteral", "BooleanLiteral", "IntLiteral", "FloatLiteral", "SchemaLiteral"} ->
            {"influx", "mysql", "mongo", "pandas"}
      [] cls \in {"DateTimeLiteral", "RegexLiteral"} -> {"influx", "mysql", "mongo"}
      [] cls \in {"Not", "Null"} -> {"mysql", "mongo", "pandas"}
      [] cls \in {"Missing", "MatchRegex", "InverseMatchRegex"} -> {"mongo"}
      [] OTHER -> {}

-----------------------------------------------------------------------------
(* Statements: Select and ShowTagKeys *)

\* bool(x): None, zero, an empty str, list or dict are false; an Expr object
\* defines neither __bool__ nor __len__ and is true
Truthy(x) ==
    IF IsExpr(x) THEN TRUE
    ELSE CASE x.t = "NoneType" -> FALSE
           [] x.t = "str" -> x.s # <<>>
           [] x.t = "int" -> x.i # 0
           [] x.t = "bool" -> x.b
           [] x.t = "float" -> x.r \notin {<<"0", ".", "0">>, <<"-", "0", ".", "0">>}
           [] x.t = "list" -> x.l # <<>>
           [] x.t = "dict" -> x.d # <<>>
           [] OTHER -> TRUE

\* x and cls.from_json(x)
AndFromJson(x, cls) == IF Truthy(x) THEN from_json(cls, x) ELSE Return(x)

\* [SchemaLiteral.from_json(c) for c in columns]
RECURSIVE SchemaEach(_, _)
SchemaEach(cs, done) ==
    IF cs = <<>> THEN Return(JList(done))
    ELSE Bind(from_json("SchemaLiteral", cs[1]),
              LAMBDA c : SchemaEach(Tail(cs), Append(done, c)))

\* columns and [SchemaLiteral.from_json(c) for c in columns]
AndSchemaEach(columns) ==
    IF ~Truthy(columns) THEN Return(columns)
    ELSE IF columns.t # "list" THEN Raise("TypeError", columns)
    ELSE SchemaEach(columns.l, <<>>)

\* Select.__init__
Select_init(table, retention_policy, db, columns, where) ==
    Bind(from_json("SchemaLiteral", table), LAMBDA t :
    Bind(AndFromJson(retention_policy, "SchemaLiteral"), LAMBDA rp :
    Bind(AndFromJson(db, "SchemaLiteral"), LAMBDA d :
    Bind(AndSchemaEach(columns), LAMBDA cs :
    Bind(AndFromJson(where, "BooleanExpr"), LAMBDA w :
    Return([cls |-> "Select", table |-> t, retention_policy |-> rp, db |-> d,
            columns |-> cs, where |-> w]))))))

\* ShowTagKeys.__init__
ShowTagKeys_init(measurement, retention_policy, db, where) ==
    Bind(AndFromJson(measurement, "SchemaLiteral"), LAMBDA m :
    Bind(AndFromJson(retention_policy, "SchemaLiteral"), LAMBDA rp :
    Bind(AndFromJson(db, "SchemaLiteral"), LAMBDA d :
    Bind(AndFromJson(where, "BooleanExpr"), LAMBDA w :
    Return([cls |-> "ShowTagKeys", measurement |-> m, retention_policy |-> rp, db |-> d,
            where |-> w])))))

\* The clause is added whatever the fragment
ql_whereAlways(where, type) ==
    IF Truthy(where)
    THEN Bind(to_query(where, type), LAMBDA q : Return(<<" ", "W", "H", "E", "R", "E", " ">> \o q.s))
    ELSE Return(<<>>)

\* if self.where: ql_where = self.where.to_query_<type>(); if ql_where: ... else: ql_where = ''
ql_where(where, type) ==
    IF Truthy(where)
    THEN Bind(to_query(where, type), LAMBDA q :
         IF q.s # <<>> THEN Return(<<" ", "W", "H", "E", "R", "E", " ">> \o q.s) ELSE Return(q.s))
    ELSE Return(<<>>)

\* ','.join(c.to_query_<type>() for c in self.columns); a SchemaLiteral always renders
ColumnList(columns, type) ==
    join(<<",">>, [i \in 1..Len(columns.l) |-> to_query(columns.l[i], type).val.s])

\* ql_select of Select.to_query_influx / to_query_mysql
ql_select(self, type) ==
    IF Truthy(self.columns) THEN <<"S", "E", "L", "E", "C", "T", " ">> \o ColumnList(self.columns, type)
    ELSE <<"S", "E", "L", "E", "C", "T", " ", "*">>

\* Select.to_query_influx
Select_to_query_influx(self) ==
    Bind(ql_where(self.where, "influx"), LAMBDA w :
    Return(JStr(
        ql_select(self, "influx") \o <<" ", "F", "R", "O", "M", " ">> \o
        (IF Truthy(self.db)
         THEN IF Truthy(self.retention_policy)
              THEN to_query_influx(self.db).val.s \o <<".">>
                     \o to_query_influx(self.retention_policy).val.s \o <<".">>
              ELSE to_query_influx(self.db).val.s \o <<".", ".">>
         ELSE IF Truthy(self.retention_policy)
              THEN to_query_influx(self.retention_policy).val.s \o <<".">>
              ELSE <<>>)
        \o to_query_influx(self.table).val.s \o w)))

\* Select.to_query_mysql
Select_to_query_mysql(self) ==
    Bind(ql_where(self.where, "mysql"), LAMBDA w :
    Return(JStr(
        ql_select(self, "mysql") \o <<" ", "F", "R", "O", "M", " ">> \o
        (IF Truthy(self.db) THEN to_query_mysql(self.db).val.s \o <<".">> ELSE <<>>)
        \o to_query_mysql(self.table).val.s \o w)))

\* ShowTagKeys.to_query_influx
ShowTagKeys_to_query_influx(self) ==
    Bind(ql_where(self.where, "influx"), LAMBDA w :
    Return(JStr(
        <<"S", "H", "O", "W", " ", "T", "A", "G", " ", "K", "E", "Y", "S">> \o
        (IF Truthy(self.db) THEN <<" ", "O", "N", " ">> \o to_query_influx(self.db).val.s ELSE <<>>)
        \o (IF Truthy(self.measurement)
            THEN <<" ", "F", "R", "O", "M", " ">> \o
                 (IF Truthy(self.retention_policy)
                  THEN to_query_influx(self.retention_policy).val.s \o <<".">>
                  ELSE <<>>)
                 \o to_query_influx(self.measurement).val.s
            ELSE <<>>)
        \o w)))

\* Query.to_query on a statement
Stmt_to_query(self, type) ==
    CASE self.cls = "Select" /\ type = "influx" -> Select_to_query_influx(self)
      [] self.cls = "Select" /\ type = "mysql" -> Select_to_query_mysql(self)
      [] self.cls = "ShowTagKeys" /\ type = "influx" -> ShowTagKeys_to_query_influx(self)
      [] OTHER -> Raise("NotImplementedError", self)

-----------------------------------------------------------------------------
(* The inputs: bounded sets of JSON values a caller may hand in *)

MaxList == 2

s_f == <<"f">>
s_g == <<"g">>
s_a == <<"a">>
s_slash_a == <<"/","a","/">>
s_unknown == <<"_","_","z","z","_","_">>

D1(k, v) == JDict(<< <<k, v>> >>)
D2(k1, v1, k2, v2) == JDict(<< <<k1, v1>>, <<k2, v2>> >>)

\* Lists of length 0..n over S
ListsOver(S, n) == UNION {[1..m -> S] : m \in 0..n}

Scalars ==
    { JStr(s_a), JStr(s_slash_a), JInt(1), JInt(10), JBool(TRUE), JBool(FALSE),
      JFloat(<<"1",".","5">>), JDate(<<2020, 1, 2, 3, 4, 5>>) }

\* A name that is a field and also a registered operator key
Fields == {s_f, s_g, s_gt}
Reserved == {s_and, s_or, s_not}
ComparisonOps == {s_eq, s_neq, s_gt, s_gte, s_lt, s_lte}
Ops == ComparisonOps \cup {s_regex, s_iregex, s_null, s_missing, s_in, s_not, s_unknown}

Conditions ==
    Scalars \cup { JNone, JList(<<>>), JList(<<JInt(1), JStr(s_a)>>),
                   JDict(<<>>), D1(s_eq, JInt(1)) }

\* {field: {op: condition}}
LeafInputs == {D1(k, D1(op, c)) : k \in Fields, op \in Ops, c \in Conditions}

\* What a list may hold
Elements ==
    { JInt(1), JNone, JList(<<JInt(1)>>), JDict(<<>>),
      D1(s_f, JInt(1)), D1(s_not, D1(s_g, D1(s_gt, JStr(s_a)))),
      D1(s_and, JList(<<D1(s_f, JInt(1)), D1(s_g, JStr(s_a))>>)),
      D1(s_or, JList(<<D1(s_f, JInt(1))>>)) }

\* {key: scalar}, {key: None}, {key: [...]}
ShorthandInputs ==
    {D1(k, v) : k \in Fields \cup Reserved, v \in Scalars \cup {JNone}}
        \cup {D1(k, JList(l)) : k \in {s_f} \cup Reserved, l \in ListsOver(Elements, MaxList)}

\* {field: {'__in__': [...]}}
MembershipInputs ==
    {D1(s_f, D1(s_in, JList(l))) : l \in ListsOver(Scalars \cup {JNone, JList(<<JInt(1)>>)}, MaxList)}

\* {key: mapping}
MappingInputs ==
    {D1(k, m) : k \in Reserved \cup {s_f},
                m \in { JDict(<<>>), D1(s_f, JInt(1)), D1(s_f, JStr(s_slash_a)),
                        D1(s_f, D1(s_null, JBool(TRUE))), D1(s_g, D1(s_missing, JBool(FALSE))),
                        D1(s_g, D1(s_gt, JDate(<<2020, 1, 2, 3, 4, 5>>))),
                        D1(s_f, D1(s_iregex, JStr(s_a))),
                        D1(s_not, JDict(<<>>)), D1(s_not, D1(s_f, JInt(1))),
                        D1(s_or, JList(<<>>)), D1(s_f, JList(<<JInt(1), JInt(10)>>)),
                        D1(s_and, JList(<<D1(s_f, JInt(1)), D1(s_g, JStr(s_a))>>)),
                        D2(s_gt, JInt(1), s_lt, JInt(10)),
                        D2(s_g, JInt(1), s_f, JStr(s_a)) }}

\* Values of a mapping with several entries
EntryValues ==
    { JInt(10), JStr(s_a), JStr(s_slash_a), JList(<<JInt(1), JInt(10)>>), JList(<<>>),
      JList(<<D1(s_f, JInt(1)), D1(s_g, JStr(s_a))>>), JList(<<JDict(<<>>)>>),
      JDict(<<>>), D1(s_gt, JInt(1)), D2(s_gt, JInt(1), s_lt, JInt(10)) }

MultiInputs ==
    {D2(k1, v1, k2, v2) : k1 \in {s_f, s_g, s_and, s_or}, k2 \in {s_f, s_g, s_and, s_not},
                          v1 \in EntryValues, v2 \in EntryValues} \ 
    {D2(k, v1, k, v2) : k \in {s_f, s_g, s_and}, v1 \in EntryValues, v2 \in EntryValues}

\* Three entries, in every order
TripleInputs ==
    LET e == << <<s_f, JInt(10)>>, <<s_g, JStr(s_a)>>, <<s_gt, D1(s_lt, JInt(1))>> >>
    IN {JDict(<<e[p[1]], e[p[2]], e[p[3]]>>) :
            p \in {q \in [1..3 -> 1..3] : \A i, j \in 1..3 : i # j => q[i] # q[j]}}

\* {field: [scalar, ...]}
ScalarListInputs ==
    {D1(k, JList(l)) : k \in {s_f, s_gt},
                       l \in ListsOver({JStr(s_slash_a), JInt(10), JBool(FALSE),
                                        JFloat(<<"1",".","5">>), JDate(<<2020, 1, 2, 3, 4, 5>>)},
                                       MaxList)}

\* {'__not__': {field: {op: scalar}}}
NegatedInputs == {D1(s_not, D1(k, D1(op, v))) : k \in {s_f, s_g}, op \in {s_eq, s_neq}, v \in Scalars}

\* {field: '/pattern/'}
Patterns == {<<>>, s_a, <<"a", "/", "b">>}
RegexInputs == {D1(k, JStr(<<"/">> \o p \o <<"/">>)) : k \in Fields, p \in Patterns}

MappingsIn == 
    {JDict(<<>>)} \cup LeafInputs \cup ShorthandInputs \cup MembershipInputs
        \cup MappingInputs \cup MultiInputs \cup TripleInputs
        \cup ScalarListInputs \cup NegatedInputs \cup RegexInputs

Inputs == MappingsIn \cup Scalars \cup {JNone, JList(<<>>)}

\* The classes whose from_json a caller invokes
Scopes == {"BooleanExpr", "Expr", "LiteralExpr", "BooleanLiteral", "SchemaLiteral", "RegexLiteral"}

\* The types handed to to_query; "sql" names no renderer
Types == {"influx", "mysql", "mongo", "pandas", "sql"}

-----------------------------------------------------------------------------
(* The state machine: a caller normalizes, builds and renders *)

Init ==
    /\ pep479 \in BOOLEAN
    /\ input \in Inputs
    /\ pc = "start"
    /\ norm = JNone /\ norm2 = JNone
    /\ scope = "" /\ built = JNone
    /\ target = "" /\ rendered = JNone
    /\ registry = Registry /\ defining = JNone

\* OperatorExpr.normalize_eval_expr_dict(input)
Normalize ==
    /\ pc = "start"
    /\ norm' = normalize_eval_expr_dict(input)
    /\ pc' = "normalized"
    /\ UNCHANGED <<registry, defining, pep479, input, norm2, scope, built, target, rendered>>

\* The result is normalized again, as the builder does with every operand
Renormalize ==
    /\ pc = "normalized"
    /\ norm.ok
    /\ norm2' = normalize_eval_expr_dict(norm.val)
    /\ pc' = "renormalized"
    /\ UNCHANGED <<registry, defining, pep479, input, norm, scope, built, target, rendered>>

\* cls.from_json(input)
FromJson(cls) ==
    /\ pc = "start"
    /\ IsSubclass(cls, "LiteralExpr") => input.t # "dict"
    /\ scope' = cls
    /\ built' = from_json(cls, input)
    /\ pc' = "built"
    /\ UNCHANGED <<registry, defining, pep479, input, norm, norm2, target, rendered>>

\* built.to_query(type)
ToQuery(type) ==
    /\ pc = "built"
    /\ built.ok
    /\ target' = type
    /\ rendered' = to_query(built.val, type)
    /\ pc' = "rendered"
    /\ UNCHANGED <<registry, defining, pep479, input, norm, norm2, scope, built>>

Next ==
    \/ Normalize
    \/ Renormalize
    \/ \E cls \in Scopes : FromJson(cls)
    \/ \E type \in Types : ToQuery(type)

Spec == Init /\ [][Next]_vars

-----------------------------------------------------------------------------
(* The state machine of statements: a caller constructs a statement around
   the where argument `input` and renders it *)

\* What a caller hands in as `where`: None, a filter mapping or a BooleanExpr
WhereInputs ==
    { JNone, JDict(<<>>),
      D1(s_f, JList(<<>>)), D1(s_or, JList(<<>>)), D1(s_f, D1(s_in, JList(<<>>))),
      D1(s_f, JInt(1)), D1(s_f, JStr(s_slash_a)), D1(s_f, JList(<<JInt(1), JInt(10)>>)),
      D2(s_f, D1(s_gt, JInt(1)), s_g, JStr(s_a)),
      D1(s_not, D1(s_f, JInt(1))), D1(s_f, D1(s_null, JBool(TRUE))),
      D1(s_f, D1(s_unknown, JInt(1))), D1(s_and, JList(<<>>)),
      D1(s_or, JList(<<D1(s_f, JList(<<>>)), D1(s_g, JList(<<>>))>>)),
      Logical("Or", <<>>), Logical("And", <<>>),
      Logical("And", <<Logical("Or", <<>>)>>),
      Binary("Equal", Literal("SchemaLiteral", JStr(s_f)), Literal("IntLiteral", JInt(1))) }

Tables == {JStr(<<"t">>)}
RetentionPolicies == {JNone, JStr(<<>>), JStr(<<"r">>)}
Dbs == {JNone, JStr(<<"d">>)}
ColumnLists == {JNone, JList(<<>>), JList(<<JStr(<<"c">>)>>), JList(<<JStr(<<"c">>), JStr(<<"e">>)>>)}
Measurements == {JNone, JStr(<<"m">>)}

InitStmt ==
    /\ pep479 \in BOOLEAN
    /\ input \in WhereInputs
    /\ pc = "start"
    /\ norm = JNone /\ norm2 = JNone
    /\ scope = "" /\ built = JNone
    /\ target = "" /\ rendered = JNone
    /\ registry = Registry /\ defining = JNone

\* Select(table, retention_policy, db, columns, where=input)
NewSelect(table, retention_policy, db, columns) ==
    /\ pc = "start"
    /\ scope' = "Select"
    /\ built' = Select_init(table, retention_policy, db, columns, input)
    /\ pc' = "built"
    /\ UNCHANGED <<registry, defining, pep479, input, norm, norm2, target, rendered>>

\* ShowTagKeys(measurement, retention_policy, db, where=input)
NewShowTagKeys(measurement, retention_policy, db) ==
    /\ pc = "start"
    /\ scope' = "ShowTagKeys"
    /\ built' = ShowTagKeys_init(measurement, retention_policy, db, input)
    /\ pc' = "built"
    /\ UNCHANGED <<registry, defining, pep479, input, norm, norm2, target, rendered>>

\* built.to_query(type)
StmtToQuery(type) ==
    /\ pc = "built"
    /\ built.ok
    /\ target' = type
    /\ rendered' = Stmt_to_query(built.val, type)
    /\ pc' = "rendered"
    /\ UNCHANGED <<registry, defining, pep479, input, norm, norm2, scope, built>>

NextStmt ==
    \/ \E table \in Tables, retention_policy \in RetentionPolicies, db \in Dbs,
          columns \in ColumnLists : NewSelect(table, retention_policy, db, columns)
    \/ \E measurement \in Measurements, retention_policy \in RetentionPolicies, db \in Dbs :
          NewShowTagKeys(measurement, retention_policy, db)
    \/ \E type \in Types : StmtToQuery(type)

StmtSpec == InitStmt /\ [][NextStmt]_vars
-----------------------------------------------------------------------------
(* Normalization idempotence *)

\* What the normalizer takes as a condition: str, int (bool with it), float, datetime
IsScalar(x) == isinstance(x, {"str", "int", "float", "datetime"})

RECURSIVE Regular(_)
\* A filter whose expanded lists hold scalars only and whose 'not' is bound
\* to a mapping, at every depth the normalizer descends to
Regular(x) ==
    IF ~isinstance(x, {"dict"}) THEN TRUE
    ELSE \A n \in 1..Len(x.d) :
            LET tag == x.d[n][1]
                tag_filter == x.d[n][2]
            IN CASE isinstance(tag_filter, {"list"}) ->
                      IF tag \in {s_and, s_or}
                      THEN \A m \in 1..Len(tag_filter.l) : Regular(tag_filter.l[m])
                      ELSE /\ tag # s_not
                           /\ \A m \in 1..Len(tag_filter.l) : IsScalar(tag_filter.l[m])
                 [] isinstance(tag_filter, {"dict"}) ->
                      IF tag = s_not THEN Regular(tag_filter)
                      ELSE \A m \in 1..Len(tag_filter.d) :
                              LET condition == tag_filter.d[m][2]
                              IN isinstance(condition, {"list"}) =>
                                    \A q \in 1..Len(condition.l) : IsScalar(condition.l[q])
                 [] OTHER -> tag # s_not

\* C1 as stated: whenever normalization succeeds, normalizing the result again
\* succeeds and returns the same mapping.
C1_Idempotent ==
    pc = "renormalized" => (norm2.ok /\ norm2.val = norm.val)

\* C1, amended: normalization is idempotent on the filters whose expanded
\* lists (under a field key or under 'in') hold scalars only and whose 'not'
\* key is bound to a mapping: normalizing the result again succeeds and returns
\* the same mapping.
C1_IdempotentOnRegular ==
    (pc = "renormalized" /\ Regular(input)) => (norm2.ok /\ norm2.val = norm.val)

\* A regular filter, a negated list shorthand, was normalized twice
C1_Witness ==
    /\ pc = "renormalized"
    /\ Regular(input)
    /\ norm2 = norm
    /\ input = D1(s_not, D1(s_f, JList(<<JInt(1), JInt(10)>>)))

-----------------------------------------------------------------------------
(* The top-level combination rule *)

\* The canonical form of entry n of mapping x, normalized on its own
EntryForm(x, n) == normalize_eval_expr_dict(D1(x.d[n][1], x.d[n][2])).val

\* The expressions entry <<tag, tag_filter>> contributes: an 'and' list the
\* canonical forms of its elements, an operator mapping one per operator,
\* anything else its own canonical form
Contribution(tag, tag_filter) ==
    IF tag = s_and /\ isinstance(tag_filter, {"list"})
    THEN [i \in 1..Len(tag_filter.l) |-> normalize_eval_expr_dict(tag_filter.l[i]).val]
    ELSE IF tag # s_not /\ isinstance(tag_filter, {"dict"})
    THEN [i \in 1..Len(tag_filter.d) |->
            normalize_eval_expr_dict(D1(tag, D1(tag_filter.d[i][1], tag_filter.d[i][2]))).val]
    ELSE <<normalize_eval_expr_dict(D1(tag, tag_filter)).val>>

RECURSIVE Contributions(_)
Contributions(items) ==
    IF items = <<>> THEN <<>>
    ELSE Contribution(items[1][1], items[1][2]) \o Contributions(Tail(items))

\* C2 as stated: a mapping with no entry normalizes to the empty mapping, one
\* with a single entry to a single-entry mapping that is no added conjunction,
\* one with n >= 2 entries to the conjunction of the n entries' canonical forms.
C2_ByEntries ==
    (pc = "normalized" /\ norm.ok) =>
        /\ Len(input.d) = 0 => norm.val = JDict(<<>>)
        /\ Len(input.d) = 1 =>
                /\ norm.val = EntryForm(input, 1)
                /\ Len(norm.val.d) = 1
                /\ norm.val.d[1][1] = s_and => input.d[1][1] = s_and
        /\ Len(input.d) >= 2 =>
                norm.val = D1(s_and, JList([n \in 1..Len(input.d) |-> EntryForm(input, n)]))

\* C2, amended: the rule counts the expressions the entries contribute, in
\* entry order, not the entries.  No expression gives the empty mapping, one
\* expression that expression alone, two or more the conjunction of them all.
C2_ByExpressions ==
    (pc = "normalized" /\ norm.ok) =>
        /\ Len(Contributions(input.d)) = 0 => norm.val = JDict(<<>>)
        /\ Len(Contributions(input.d)) = 1 => norm.val = Contributions(input.d)[1]
        /\ Len(Contributions(input.d)) >= 2 =>
                norm.val = D1(s_and, JList(Contributions(input.d)))

\* Two entries, three expressions: an operator mapping with two operators
\* and a scalar
C2_Witness ==
    /\ pc = "normalized"
    /\ input = D2(s_f, D2(s_gt, JInt(1), s_lt, JInt(10)), s_g, JInt(10))
    /\ norm.ok
    /\ Len(norm.val.d[1][2].l) = 3

-----------------------------------------------------------------------------
(* Unsupported kind/target pairs *)

Raised(r, e) == ~r.ok /\ r.exc = e

\* C3: a node of a kind that has neither an operator token nor a renderer of
\* its own for the target raises NotImplementedError when rendered, and so
\* does any node rendered for a target outside the four.
C3_Unsupported ==
    pc = "rendered" =>
        IF target \in {"influx", "mysql", "mongo", "pandas"}
        THEN (/\ operator(built.val.cls, target) = JNone
              /\ target \notin OwnRenderers(built.val.cls))
                => Raised(rendered, "NotImplementedError")
        ELSE Raised(rendered, "NotImplementedError")

-----------------------------------------------------------------------------
(* Empty mappings as operands *)

\* An empty mapping is the operand of 'not', or an element of an 'and'/'or'
\* list of mappings
EmptyOperand(x) ==
    /\ isinstance(x, {"dict"})
    /\ Len(x.d) = 1
    /\ \/ x.d[1][1] = s_not /\ x.d[1][2] = JDict(<<>>)
       \/ /\ x.d[1][1] \in {s_and, s_or}
          /\ isinstance(x.d[1][2], {"list"})
          /\ \A i \in 1..Len(x.d[1][2].l) : isinstance(x.d[1][2].l[i], {"dict"})
          /\ \E i \in 1..Len(x.d[1][2].l) : x.d[1][2].l[i] = JDict(<<>>)

\* C4: BooleanExpr.from_json of a filter in which an empty mapping is the
\* operand of 'not' or an element of an 'and'/'or' list raises InvalidQuery.
C4_EmptyOperandRejected ==
    (pc = "built" /\ scope = "BooleanExpr" /\ EmptyOperand(input))
        => Raised(built, "InvalidQuery")

-----------------------------------------------------------------------------
(* Building comparisons *)

\* The kind registered under a comparison operator
KindOf(op) ==
    CASE op = s_eq -> "Equal"
      [] op = s_neq -> "NotEqual"
      [] op = s_gt -> "GreaterThan"
      [] op = s_gte -> "GreaterThanOrEqual"
      [] op = s_lt -> "LessThan"
      [] op = s_lte -> "LessThanOrEqual"

\* The literal kind of a scalar's type
LiteralKindOf(v) ==
    CASE v.t = "str" -> "StringLiteral"
      [] v.t = "bool" -> "BooleanLiteral"
      [] v.t = "int" -> "IntLiteral"
      [] v.t = "float" -> "FloatLiteral"
      [] v.t = "datetime" -> "DateTimeLiteral"

ComparisonNode(f, op, v) ==
    Binary(KindOf(op), Literal("SchemaLiteral", JStr(f)), Literal(LiteralKindOf(v), v))

\* The keys registered at the boolean-expression scope
BooleanKeys == Reserved \cup ComparisonOps \cup {s_regex, s_iregex, s_null, s_missing}

\* The scalars the equality shorthand takes: a boolean, an integer, a float,
\* or a string that is not delimited by '/'
IsShorthandScalar(v) ==
    /\ isinstance(v, {"str", "int", "float"})
    /\ isinstance(v, {"str"}) => ~(startswith(v.s, "/") /\ endswith(v.s, "/"))

\* C5 as stated: for every string f, comparison operator op and scalar v
\* (string, boolean, integer, float, timestamp), BooleanExpr.from_json of
\* {f: {op: v}} returns the node of the kind registered under op with the
\* identifier literal of f on the left and the literal of v's type on the
\* right, and BooleanExpr.from_json of {f: v} returns the node of {f: {eq: v}}.
C5_BuildComparison ==
    (pc = "built" /\ scope = "BooleanExpr") =>
        /\ \A f \in Fields, op \in ComparisonOps, v \in Scalars :
                input = D1(f, D1(op, v)) => built = Return(ComparisonNode(f, op, v))
        /\ \A f \in Fields, v \in Scalars :
                input = D1(f, v) => built = Return(ComparisonNode(f, s_eq, v))

\* C5, amended: the same for every f that is not itself a key registered at
\* the boolean-expression scope, with the shorthand {f: v} limited to the
\* scalars the normalizer turns into an equality: booleans, integers, floats
\* and strings that are not delimited by '/'.
C5_BuildComparisonOfField ==
    (pc = "built" /\ scope = "BooleanExpr") =>
        /\ \A f \in Fields \ BooleanKeys, op \in ComparisonOps, v \in Scalars :
                input = D1(f, D1(op, v)) => built = Return(ComparisonNode(f, op, v))
        /\ \A f \in Fields \ BooleanKeys, v \in {w \in Scalars : IsShorthandScalar(w)} :
                input = D1(f, v) => built = Return(ComparisonNode(f, s_eq, v))

C5_Witness ==
    /\ pc = "built"
    /\ scope = "BooleanExpr"
    /\ input = D1(s_g, D1(s_lte, JDate(<<2020, 1, 2, 3, 4, 5>>)))
    /\ built.ok
    /\ built.val.cls = "LessThanOrEqual"

-----------------------------------------------------------------------------
(* Negation for the mongo target *)

s_dollar_not == <<"$", "n", "o", "t">>
s_dollar_eq == <<"$", "e", "q">>

\* not {f: {eq: v}}, as a node
IsNegatedEquality(x) ==
    /\ x.cls = "Not"
    /\ x.operand.cls = "Equal"
    /\ x.operand.right.cls \in
            {"StringLiteral", "BooleanLiteral", "IntLiteral", "FloatLiteral", "DateTimeLiteral"}

\* C6 as stated: to_query_mongo of the negation of {f: {eq: v}} is
\* {f: {'$not': v}}.
C6_NotAppliedToValue ==
    (pc = "rendered" /\ target = "mongo" /\ IsNegatedEquality(built.val)) =>
        rendered = Return(D1(built.val.operand.left.literal.s,
                             D1(s_dollar_not, built.val.operand.right.literal)))

\* C6, amended: to_query_mongo of the negation of {f: {eq: v}} is
\* {f: {'$not': {'$eq': v}}}: the negate operator is applied, under the field
\* key, to the operator mapping the equality renders to, and the top-level
\* key is the field, not the negate operator.
C6_NotAppliedToOperator ==
    (pc = "rendered" /\ target = "mongo" /\ IsNegatedEquality(built.val)) =>
        /\ rendered = Return(D1(built.val.operand.left.literal.s,
                                D1(s_dollar_not,
                                   D1(s_dollar_eq, built.val.operand.right.literal))))
        /\ rendered.val.d[1][1] # s_dollar_not

C6_Witness ==
    /\ pc = "rendered"
    /\ target = "mongo"
    /\ input = D1(s_not, D1(s_f, D1(s_eq, JDate(<<2020, 1, 2, 3, 4, 5>>))))
    /\ IsNegatedEquality(built.val)
    /\ rendered.ok

-----------------------------------------------------------------------------
(* Sorted rendering of And / Or *)

Orderings(n) == {q \in [1..n -> 1..n] : \A i, j \in 1..n : i # j => q[i] # q[j]}

Permuted(xs, q) == [i \in 1..Len(xs) |-> xs[q[i]]]

\* The operator token of And / Or for the three text targets
Token(cls, type) ==
    IF type = "pandas" THEN (IF cls = "And" THEN <<"&">> ELSE <<"|">>)
    ELSE (IF cls = "And" THEN <<"A", "N", "D">> ELSE <<"O", "R">>)

\* Each child's fragment for the target, in parentheses
Parenthesized(self, type) ==
    [i \in 1..Len(self.exprs) |-> <<"(">> \o to_query(self.exprs[i], type).val.s \o <<")">>]

Ascending(xs) == \A i \in 1..Len(xs) - 1 : ~StrLess(xs[i + 1], xs[i])

\* C7: for influx, mysql and pandas, the text an And / Or node renders to is
\* its children's parenthesized fragments, arranged in ascending order and
\* joined by the target's token between spaces; and the node with the same
\* children in any other order renders to the same text.
C7_SortedJoin ==
    (/\ pc = "rendered"
     /\ target \in {"influx", "mysql", "pandas"}
     /\ built.val.cls \in {"And", "Or"}
     /\ rendered.ok) =>
        /\ \E q \in Orderings(Len(built.val.exprs)) :
              /\ Ascending(Permuted(Parenthesized(built.val, target), q))
              /\ rendered.val.s =
                    join(<<" ">> \o Token(built.val.cls, target) \o <<" ">>,
                         Permuted(Parenthesized(built.val, target), q))
        /\ \A q \in Orderings(Len(built.val.exprs)) :
              to_query(Logical(built.val.cls, Permuted(built.val.exprs, q)), target) = rendered

\* Three children given in an order that is not the order of their fragments
C7_Witness ==
    /\ pc = "rendered"
    /\ target = "pandas"
    /\ input = JDict(<< <<s_gt, D1(s_lt, JInt(1))>>, <<s_g, JStr(s_a)>>, <<s_f, JInt(10)>> >>)
    /\ built.val.cls = "And"
    /\ rendered.ok
    /\ ~Ascending(Parenthesized(built.val, target))

-----------------------------------------------------------------------------
(* Operand type mismatches *)

-----------------------------------------------------------------------------
(* Shorthand and explicit forms *)

\* {f: [v1..vn]} for a field f and scalars v1..vn
IsScalarList(x) ==
    /\ isinstance(x, {"dict"})
    /\ Len(x.d) = 1
    /\ x.d[1][1] \in Fields
    /\ isinstance(x.d[1][2], {"list"})
    /\ \A i \in 1..Len(x.d[1][2].l) : IsScalar(x.d[1][2].l[i])

\* {'__or__': [{f: {'__eq__': v1}}, ..., {f: {'__eq__': vn}}]}
OrOfEq(f, l) == D1(s_or, JList([i \in 1..Len(l) |-> D1(f, D1(s_eq, l[i]))]))

\* C9: for every field f and list of scalars, {f: [v1..vn]},
\* {'__or__': [{f: {'__eq__': v1}}, ...]} and {f: {'__in__': [v1..vn]}}
\* normalize to the same mapping, the disjunction of the equalities; and
\* {f: '/' + p + '/'} normalizes to what {f: {'__regex__': p}} does,
\* {f: {'__regex__': p}}.
C9_ShorthandIsExplicit ==
    (pc = "normalized") =>
        /\ IsScalarList(input) =>
              /\ norm = Return(OrOfEq(input.d[1][1], input.d[1][2].l))
              /\ norm = normalize_eval_expr_dict(OrOfEq(input.d[1][1], input.d[1][2].l))
              /\ norm = normalize_eval_expr_dict(
                           D1(input.d[1][1], D1(s_in, input.d[1][2])))
        /\ \A f \in Fields, p \in Patterns :
              input = D1(f, JStr(<<"/">> \o p \o <<"/">>)) =>
                /\ norm = Return(D1(f, D1(s_regex, JStr(p))))
                /\ norm = normalize_eval_expr_dict(D1(f, D1(s_regex, JStr(p))))

C9_Witness ==
    /\ pc = "normalized"
    /\ input = D1(s_f, JList(<<JStr(s_slash_a), JDate(<<2020, 1, 2, 3, 4, 5>>)>>))
    /\ norm.ok
    /\ Len(norm.val.d[1][2].l) = 2

-----------------------------------------------------------------------------
(* Unrecognized operators *)

\* C10: for f and op that are not keys registered at the boolean-expression
\* scope and a scalar v, BooleanExpr.from_json of {f: {op: v}} raises
\* InvalidQuery carrying the JSON it was given; it returns no node and lets
\* neither UnrecognizedJsonableClass nor KeyError out.
C10_UnrecognizedOperator ==
    (pc = "built" /\ scope = "BooleanExpr") =>
        \A f \in Fields \ BooleanKeys, op \in Ops \ BooleanKeys, v \in Scalars :
            input = D1(f, D1(op, v)) =>
                /\ Raised(built, "InvalidQuery")
                /\ built.frag = input

C10_Witness ==
    /\ pc = "built"
    /\ scope = "BooleanExpr"
    /\ input = D1(s_f, D1(s_unknown, JInt(1)))
    /\ Raised(built, "InvalidQuery")

-----------------------------------------------------------------------------
(* The state machine of class statements: after the import, a program defines
   further kinds under the registry metaclass *)

MaxDefs == 2

NewNames == <<"X1", "X2", "X3", "X4">>

\* The classes defined after the import
Named(reg) == {NewNames[i] : i \in {j \in 1..Len(NewNames) : DefOf(reg.classes, NewNames[j]).bases # <<>>}}

BaseLists(reg) ==
    { <<"LiteralExpr">>, <<"BooleanExpr">>, <<"Equal">>,
      <<"LiteralExpr", "BooleanExpr">>, <<"UnaryBooleanExpr", "LogicalExpr">> }
    \cup {<<n>> : n \in Named(reg)}
    \cup {<<"BooleanExpr", n>> : n \in Named(reg)}
    \cup {<<n, "LiteralExpr">> : n \in Named(reg)}

\* <<base, key>> of a class body; a class without a key is of interest only
\* as a base class
NewBodies ==
    {<<b, k>> : b \in BOOLEAN, k \in {JStr(s_eq), JStr(<<"k">>)}} \cup {<<TRUE, NoKey>>}

InitRegistry ==
    /\ pep479 = TRUE
    /\ input = JNone
    /\ pc = "start"
    /\ norm = JNone /\ norm2 = JNone
    /\ scope = "" /\ built = JNone
    /\ target = "" /\ rendered = JNone
    /\ registry = Registry
    /\ defining = [n |-> 0, def |-> JNone, result |-> JNone]

\* What the class statement leaves of the registry
After(r) == IF r.ok THEN r.val ELSE r.reg

\* class <name>(<bases>): base = ...; key = ...
DefineClass(d) ==
    /\ defining.n < MaxDefs
    /\ registry' = After(Define(registry, d))
    /\ defining' = [n |-> defining.n + 1, def |-> d, result |-> Define(registry, d)]
    /\ UNCHANGED <<pep479, input, pc, norm, norm2, scope, built, target, rendered>>

NextRegistry ==
    \E bases \in BaseLists(registry), body \in NewBodies :
        DefineClass(ClassDef(NewNames[defining.n + 1], bases, body[1], body[2], FALSE))

RegistrySpec == InitRegistry /\ [][NextRegistry]_vars

-----------------------------------------------------------------------------
(* The WHERE clause of statements *)

s_where == <<" ", "W", "H", "E", "R", "E", " ">>

EndsWith(q, tail) == Len(q) >= Len(tail) /\ SubSeq(q, Len(q) - Len(tail) + 1, Len(q)) = tail

HasSubstring(q, sub) == \E i \in 1..(Len(q) - Len(sub) + 1) : SubSeq(q, i, i + Len(sub) - 1) = sub

\* The where argument is None or {}, or the expression built from it renders
\* to the empty string for the target
NoFilter(where, type) ==
    \/ input \in {JNone, JDict(<<>>)}
    \/ to_query(where, type) = Return(JStr(<<>>))

\* C11: a Select rendered for influx or mysql, or a ShowTagKeys rendered for
\* influx, holds no ' WHERE ' when its where argument is None, {} or an
\* expression rendering to the empty string; otherwise it ends with ' WHERE '
\* followed by the expression's non-empty fragment; it never ends with
\* ' WHERE '.
C11_WhereClause ==
    (pc = "rendered" /\ rendered.ok) =>
        /\ IF NoFilter(built.val.where, target)
           THEN ~HasSubstring(rendered.val.s, s_where)
           ELSE /\ to_query(built.val.where, target).val.s # <<>>
                /\ EndsWith(rendered.val.s,
                            s_where \o to_query(built.val.where, target).val.s)
        /\ ~EndsWith(rendered.val.s, s_where)

\* A filter that renders to nothing: {f: []} is an empty disjunction
C11_Witness ==
    /\ pc = "rendered"
    /\ scope = "Select"
    /\ target = "mysql"
    /\ input = D1(s_f, JList(<<>>))
    /\ built.val.where = Logical("Or", <<>>)
    /\ rendered = Return(JStr(<<"S", "E", "L", "E", "C", "T", " ", "*", " ", "F", "R", "O", "M", " ", "t">>))


-----------------------------------------------------------------------------
(* Registry key uniqueness *)

\* The key of the class statement d is bound in the dict of owner
Bound(subclasses, owner, key) == \E e \in subclasses : e[1] = owner /\ e[2] = key

\* The dicts the class statement d registers in, as a set
Scopes_of(reg, d) == {Owners(reg, d)[i] : i \in 1..Len(Owners(reg, d))}

\* The class statement d reaches the registration with a key
Registers(reg, d) == Linearizable(reg.classes, d) /\ d.key # NoKey

\* No dict maps a key to two classes
OneKindPerKey(subclasses) ==
    \A e1 \in subclasses, e2 \in subclasses : (e1[1] = e2[1] /\ e1[2] = e2[2]) => e1[3] = e2[3]

\* The class statement d met a key of its own already bound in one of its dicts
Conflict(reg, d, result) ==
    /\ ~result.ok
    /\ result.exc = "KeyError"
    /\ result.frag.key = d.key
    /\ result.frag.new = d.name
    /\ \E o \in Scopes_of(reg, d) : <<o, d.key, result.frag.existing>> \in reg.subclasses

\* C12: through any sequence of class statements under the registry metaclass,
\* every dict of subclasses maps a key to at most one class, and a binding once
\* made is never replaced, so the class bound to a key is the first registered
\* under it in that dict; a class statement whose key is already bound in a
\* dict it registers in raises a KeyError that names the key, the new class
\* and the class already bound, and the binding stays; a class statement
\* whose key is bound in none of its dicts, which are distinct, is bound in
\* each of them, whatever other dicts bind that key.
C12_KeyUniqueness ==
    [][ /\ OneKindPerKey(registry'.subclasses)
        /\ \A e \in registry.subclasses : e \in registry'.subclasses
        /\ Registers(registry, defining'.def) =>
            /\ (\E o \in Scopes_of(registry, defining'.def) :
                    Bound(registry.subclasses, o, defining'.def.key))
               => Conflict(registry, defining'.def, defining'.result)
            /\ ( /\ Owners(registry, defining'.def) # <<>>
                 /\ Cardinality(Scopes_of(registry, defining'.def)) = Len(Owners(registry, defining'.def))
                 /\ \A o \in Scopes_of(registry, defining'.def) :
                        ~Bound(registry.subclasses, o, defining'.def.key) )
               => \A o \in Scopes_of(registry, defining'.def) :
                      <<o, defining'.def.key, defining'.def.name>> \in registry'.subclasses
      ]_vars

\* class X1(LiteralExpr): key = '__eq__' was bound among the literals although
\* Equal holds that key among the operators; class X2(LiteralExpr): key =
\* '__eq__' then raised the KeyError naming X2 and X1, and X1 is still bound.
C12_Witness ==
    /\ defining.n = 2
    /\ defining.def = ClassDef("X2", <<"LiteralExpr">>, FALSE, JStr(s_eq), FALSE)
    /\ Conflict(registry, defining.def, defining.result)
    /\ defining.result.frag.existing = "X1"
    /\ <<"LiteralExpr", JStr(s_eq), "X1">> \in registry.subclasses
    /\ <<"OperatorExpr", JStr(s_eq), "Equal">> \in registry.subclasses


-----------------------------------------------------------------------------
(* Negation of any operand for the mongo target *)

\* '$and' / '$or'
LogicalTokens == {operator_mongo("And").s, operator_mongo("Or").s}

\* {key: {'$not': ...}}
IsNegationUnder(q, key) ==
    /\ q.t = "dict"
    /\ Len(q.d) = 1
    /\ q.d[1][1] = key
    /\ q.d[1][2].t = "dict"
    /\ Len(q.d[1][2].d) = 1
    /\ q.d[1][2].d[1][1] = s_dollar_not

\* C13: to_query_mongo of a negation, whatever its operand (a comparison, a
\* regex match, a null or missing test, another negation, an and/or node), is
\* a single-entry mapping {key: {'$not': ...}} whose key is not '$and' or
\* '$or': the '$not' mapping never stands where the operand list of '$and' /
\* '$or' belongs.
C13_NegationUnderField ==
    (pc = "rendered" /\ target = "mongo" /\ built.val.cls = "Not" /\ rendered.ok) =>
        /\ IsNegationUnder(rendered.val, rendered.val.d[1][1])
        /\ rendered.val.d[1][1] \notin LogicalTokens

====
